---- MODULE Spec2Model ----
(***************************************************************************)
(* APTDacManager: the command line interface (cmdUI.py) and the Modbus     *)
(* master (DacMaster.py) that drives DAC channels and 1-Wire temperature   *)
(* sensors behind an Arduino bridge.                                       *)
(*                                                                         *)
(* Every CLI invocation is one process: it loads the pickled settings,     *)
(* opens the serial port, issues register and coil calls, and ends.  The   *)
(* model keeps the pickled settings (store) and the record of the          *)
(* invocation that is running or has just ended (last): the transport      *)
(* calls it made in order, whether the port was opened and closed, and     *)
(* how it ended.  The registers of the bridge (bridge) are followed only   *)
(* where a command reads back what an earlier command wrote.               *)
(*                                                                         *)
(* Voltages are Python floats in the code.  Here a voltage is an integer   *)
(* count of 1/VoltScale volt; with VoltScale = 1024 every multiple of the  *)
(* DAC step 60/4096 V, as well as 12.5 V and 60 V, is represented exactly  *)
(* and the arithmetic of the conversions is exact.                         *)
(***************************************************************************)
EXTENDS Integers, Sequences, FiniteSets, TLC

VARIABLES store, last, calc, bridge

vars == <<store, last, calc, bridge>>

(***************************************************************************)
(* Bounds of the model.                                                    *)
(***************************************************************************)
MaxTokens == 2       \* alias tokens on one command line
MaxLines == 2        \* lines of a directory file
MaxSensors == 2      \* sensors the bus scan may report
MaxBoards == 4       \* board counts tried by the address calculations
MaxIndex == 3        \* sensor indices tried by the address calculations
VoltMargin == 2      \* voltage units tried below 0 V and above 60 V

\* voltage units per volt: a quarter of the 4096 DAC codes, so that one DAC
\* step, 60/4096 V, is 15 units
VoltScale == 4096 \div 4

(***************************************************************************)
(* cmdUI.py defaults.                                                      *)
(***************************************************************************)
NUM_BOARDS == 4

(***************************************************************************)
(* Sequence helpers.                                                       *)
(***************************************************************************)
Range(s) == {s[i] : i \in 1..Len(s)}

SeqsUpTo(S, n) == UNION {[1..k -> S] : k \in 0..n}

(***************************************************************************)
(* Python dict, which keeps insertion order: a sequence of <<key, value>>  *)
(* pairs with distinct keys.  Assigning to a key that is present replaces  *)
(* its value in place; a new key goes to the end.                          *)
(***************************************************************************)
DictKeys(d) == [i \in 1..Len(d) |-> d[i][1]]

DictHas(d, k) == \E i \in 1..Len(d) : d[i][1] = k

DictGet(d, k) == d[CHOOSE i \in 1..Len(d) : d[i][1] = k][2]

DictSet(d, k, v) ==
    IF DictHas(d, k)
    THEN [i \in 1..Len(d) |-> IF d[i][1] = k THEN <<k, v>> ELSE d[i]]
    ELSE Append(d, <<k, v>>)

(***************************************************************************)
(* A Python call either returns a value or raises an exception.            *)
(***************************************************************************)
Return(v) == [exc |-> "none", val |-> v]

Raise(e) == [exc |-> e]

(***************************************************************************)
(* DacMaster: unit conversions (static methods).                           *)
(***************************************************************************)
\* variant: integer division, which drops the fraction of a volt
convertToActualV_IntDiv(rawV) == ((rawV * 60) \div 4096) * VoltScale

\* rawV * 60.0/4096.0, in voltage units
convertToActualV(rawV) == (rawV * (60 * VoltScale)) \div 4096

\* variant: no range check, the result is only clamped from above
convertToRawV_NoRangeCheck(actualV) ==
    LET rawV == (actualV * 4096) \div (60 * VoltScale)
    IN  Return(IF rawV < 4096 THEN rawV ELSE 4095)

\* variant: the code for 60 V is not clamped
convertToRawV_NoClamp(actualV) ==
    IF actualV < 0 \/ actualV > 60 * VoltScale
    THEN Raise("ValueError")
    ELSE Return((actualV * 4096) \div (60 * VoltScale))

\* raises ValueError outside [0, 60]; int(actualV * 4096.0/60.0), 4096 clamped to 4095
convertToRawV(actualV) ==
    IF actualV < 0 \/ actualV > 60 * VoltScale
    THEN Raise("ValueError")
    ELSE LET rawV == (actualV * 4096) \div (60 * VoltScale)
         IN  Return(IF rawV < 4096 THEN rawV ELSE 4095)

(***************************************************************************)
(* DacMaster.convertToDegC.  A temperature is an integer count of          *)
(* 1/DegScale degree Celsius; the factor 0.0078125 of the code is 1/128,   *)
(* so with DegScale = 128 the product is exact.                            *)
(***************************************************************************)
DegScale == 128

TEMP_DEVICE_DISCONNECTED_RAW == -7040

TEMP_DEVICE_DISCONNECTED_C == -127

\* variant: the disconnected code itself is converted like a reading
convertToDegC_StrictSentinel(rawTemp) ==
    IF rawTemp < TEMP_DEVICE_DISCONNECTED_RAW
    THEN TEMP_DEVICE_DISCONNECTED_C * DegScale
    ELSE (rawTemp * DegScale) \div 128

\* rawTemp * 0.0078125, or -127 at and below the disconnected code
convertToDegC(rawTemp) ==
    IF rawTemp <= TEMP_DEVICE_DISCONNECTED_RAW
    THEN TEMP_DEVICE_DISCONNECTED_C * DegScale
    ELSE (rawTemp * DegScale) \div 128

(***************************************************************************)
(* DacMaster.address(dacChan, dacNum, boardNum=0, sipmChan=0).             *)
(***************************************************************************)
\* variant: the first number weighs as the board, the last as the channel
address_BoardFirst(numBoards, dacChan, dacNum, boardNum, sipmChan) ==
    numBoards * 4 * 2 * sipmChan + (4 * 2 * dacChan + (4 * dacNum + boardNum))

\* variant: a board takes four addresses instead of eight
address_NarrowBoard(numBoards, dacChan, dacNum, boardNum, sipmChan) ==
    numBoards * 4 * 2 * sipmChan + (4 * boardNum + (4 * dacNum + dacChan))

address(numBoards, dacChan, dacNum, boardNum, sipmChan) ==
    numBoards * 4 * 2 * sipmChan + (4 * 2 * boardNum + (4 * dacNum + dacChan))

\* cntrl.address(*chan): chan is the tuple stored for an alias.  Python binds
\* it to the positional parameters; fewer than 2 or more than 4 is a TypeError.
addressOf(numBoards, chan) ==
    IF Len(chan) < 2 \/ Len(chan) > 4
    THEN Raise("TypeError")
    ELSE Return(address(numBoards, chan[1], chan[2],
                        IF Len(chan) >= 3 THEN chan[3] ELSE 0,
                        IF Len(chan) >= 4 THEN chan[4] ELSE 0))

\* variant: four DACs to a board
countAddress_FourDacs(numBoards) == numBoards * 4 * 4

\* DacMaster.initT: address of the sensor-count register
countAddress(numBoards) == numBoards * 2 * 4

\* DacMaster.getTSerial / getT / recordT: first address of sensor i
sensorAddress(numBoards, i) == 1 + numBoards * 2 * 4 + i * 4

(***************************************************************************)
(* The transport (minimalmodbus.Instrument).  A run is the list of calls   *)
(* made so far and the exception that ended it, "none" while it goes on.   *)
(* A call raises when the bridge does not answer; fail is the position of  *)
(* the call that gets no answer (0: every call is answered).  The library  *)
(* refuses a negative register address with an exception of its own.       *)
(***************************************************************************)
NewRun == [ops |-> <<>>, exc |-> "none"]

Call(r, op, fail) ==
    IF r.exc # "none"
    THEN r
    ELSE [ops |-> Append(r.ops, op),
          exc |-> IF Len(r.ops) + 1 = fail \/ op.address < 0
                  THEN "TransportError" ELSE "none"]

Abort(r, e) == IF r.exc # "none" THEN r ELSE [r EXCEPT !.exc = e]

read_register(a, fc) == [call |-> "read_register", address |-> a, functioncode |-> fc]

write_register(a, v, fc) ==
    [call |-> "write_register", address |-> a, value |-> v, functioncode |-> fc]

read_bit(a, fc) == [call |-> "read_bit", address |-> a, functioncode |-> fc]

write_bit(a, v, fc) ==
    [call |-> "write_bit", address |-> a, value |-> v, functioncode |-> fc]

(***************************************************************************)
(* DacMaster methods, as the transport calls they make.                    *)
(***************************************************************************)
\* variant: the channel is powered up along with the write
dmUpdateV_PowersUp(r, a, newRawV, fail) ==
    Call(Call(r, write_register(a, newRawV, 6), fail), write_bit(a, 1, 5), fail)

dmUpdateV(r, a, newRawV, fail) == Call(r, write_register(a, newRawV, 6), fail)

\* variant: reads the register after the one asked for
dmGetV_NextAddress(r, a, fail) == Call(r, read_register(a + 1, 3), fail)

dmGetV(r, a, fail) == Call(r, read_register(a, 3), fail)

dmReadV(r, a, fail) == Call(r, read_register(a, 4), fail)

dmPowerUp(r, a, fail) == Call(r, write_bit(a, 1, 5), fail)

dmPowerDown(r, a, fail) == Call(r, write_bit(a, 0, 5), fail)

\* variant: the coil is read with the function code of the coil write
dmGetPower_WriteCode(r, a, fail) == Call(r, read_bit(a, 5), fail)

dmGetPower(r, a, fail) == Call(r, read_bit(a, 1), fail)

\* initT, getT: the register holds the value plus 32768
debias(uint16) == uint16 - 32768

dmInitT(r, numBoards, fail) == Call(r, read_register(countAddress(numBoards), 4), fail)

dmGetTSerial(r, numBoards, i, fail) ==
    LET a == sensorAddress(numBoards, i)
    IN  Call(Call(Call(Call(r, read_register(a + 0, 3), fail),
                       read_register(a + 1, 3), fail),
                  read_register(a + 2, 3), fail),
             read_register(a + 3, 3), fail)

\* variant: no check of the index
dmGetT_NoIndexCheck(r, numBoards, i, fail) ==
    Call(r, read_register(sensorAddress(numBoards, i), 4), fail)

dmGetT(r, numBoards, i, fail) ==
    IF i < 0 THEN Abort(r, "ValueError")
    ELSE Call(r, read_register(sensorAddress(numBoards, i), 4), fail)

dmRecordT(r, numBoards, i, fail) ==
    Call(r, read_bit(sensorAddress(numBoards, i), 1), fail)

(***************************************************************************)
(* Text the CLI reads.  A line of a directory file is the sequence of its  *)
(* whitespace-separated words, "#" being a word of its own.                *)
(***************************************************************************)
Aliases == {"a", "b"}

\* command-line tokens: the aliases, a name that no directory holds, and
\* two spellings of the wildcard
Tokens == Aliases \cup {"z", "all", "All"}

\* str.lower() on the command-line tokens
lower(s) == IF s = "All" THEN "all" ELSE s

\* int(s): the decimal literals the directory lines below use; any other
\* word raises ValueError
DecLit == ("0" :> 0) @@ ("1" :> 1) @@ ("2" :> 2) @@ ("3" :> 3) @@ ("4" :> 4)
          @@ ("-1" :> -1)

\* line.partition('#')[0].split(): the words before the comment
partition(line) ==
    LET hash == {i \in 1..Len(line) : line[i] = "#"}
    IN  IF hash = {} THEN line
        ELSE SubSeq(line, 1, (CHOOSE i \in hash : \A j \in hash : i <= j) - 1)

\* init, lines 80-88: addressDict
RECURSIVE parseAddressFile(_, _, _)
parseAddressFile(file, i, addressDict) ==
    IF i > Len(file) THEN Return(addressDict)
    ELSE LET entries == partition(file[i])
         IN  IF Len(entries) = 0
             THEN parseAddressFile(file, i + 1, addressDict)
             ELSE IF \E j \in 2..Len(entries) : entries[j] \notin DOMAIN DecLit
             THEN Raise("ValueError")
             ELSE parseAddressFile(file, i + 1,
                    DictSet(addressDict, entries[1],
                            [j \in 1..(Len(entries) - 1) |-> DecLit[entries[j + 1]]]))

(***************************************************************************)
(* The persisted settings (cmd_UI_vars.obj).  Slave id, port, baud rate    *)
(* and timeout play no part in addressing and are left out.                *)
(***************************************************************************)
NoStore == [saved |-> FALSE]

Settings(numBoards, addressDict, tempDict, iv_tempDict) ==
    [saved |-> TRUE, numBoards |-> numBoards, addressDict |-> addressDict,
     tempDict |-> tempDict, iv_tempDict |-> iv_tempDict]

Idle == [cmd |-> "none"]

\* no calculation of the conversions or addresses is at hand
NoCalc == [fn |-> "none"]

\* how an invocation ends: the handlers close the port on the paths that
\* reach cntrl.close(); an exception nobody catches ends the process with the
\* port still open and exit status 1
Ended(cmd, argv, opened, closesOn, r) ==
    [cmd |-> cmd, argv |-> argv, opened |-> opened,
     closed |-> opened /\ r.exc \in closesOn,
     ops |-> r.ops, exc |-> r.exc, exit |-> IF r.exc = "none" THEN 0 ELSE 1]

(***************************************************************************)
(* The bridge.  Its firmware is not part of cmdUI.py or DacMaster.py; what *)
(* is modelled is what the register map promises: a holding register keeps *)
(* the last value written to it (the last commanded value).  holding maps  *)
(* the addresses written so far to their values.  written maps an alias    *)
(* to the register write and the voltage of the last updateV that ended    *)
(* without error and named it, for as long as the directory is the same    *)
(* and nothing else has written to that address.  on is the set of coil    *)
(* addresses whose power bit is set: a coil keeps the last bit written to  *)
(* it, and every channel is powered off when the bridge starts.            *)
(***************************************************************************)
PowerOn == [holding |-> <<>>, written |-> <<>>, on |-> {}]

\* write single register: the holding register takes the value
bridgeWrite(holding, a, v) == (a :> v) @@ holding

\* read holding register: the value last written; unwritten stands for what
\* a register never written holds
bridgeRead(holding, a, unwritten) ==
    IF a \in DOMAIN holding THEN holding[a] ELSE unwritten

\* write single coil: the power bit takes the value
bridgeWriteCoil(on, a, v) == IF v = 1 THEN on \cup {a} ELSE on \ {a}

\* the coil writes among the first n calls of a run, applied in order
RECURSIVE applyCoilWrites(_, _, _, _)
applyCoilWrites(on, ops, j, n) ==
    IF j > n THEN on
    ELSE applyCoilWrites(IF ops[j].call = "write_bit"
                         THEN bridgeWriteCoil(on, ops[j].address, ops[j].value)
                         ELSE on,
                         ops, j + 1, n)

\* the calls of a run that the bridge answered: all but the one that raised
Answered(r) == IF r.exc = "TransportError" THEN Len(r.ops) - 1 ELSE Len(r.ops)

\* the register writes among the first n calls of a run, applied in order
RECURSIVE applyWrites(_, _, _, _)
applyWrites(holding, ops, j, n) ==
    IF j > n THEN holding
    ELSE applyWrites(IF ops[j].call = "write_register"
                     THEN bridgeWrite(holding, ops[j].address, ops[j].value)
                     ELSE holding,
                     ops, j + 1, n)

(***************************************************************************)
(* The channel commands: powUp, powDown, getPower, getV, readV, updateV.   *)
(***************************************************************************)
ChanCmds == {"powerUp", "powerDown", "getPower", "getV", "readV", "updateV"}

\* the body of the for loop, once the channel address is known
chanBody(cmd, r, channel, newV, fail) ==
    CASE cmd = "powerUp" -> dmGetPower(dmPowerUp(r, channel, fail), channel, fail)
      [] cmd = "powerDown" -> dmGetPower(dmPowerDown(r, channel, fail), channel, fail)
      [] cmd = "getPower" -> dmGetPower(r, channel, fail)
      [] cmd = "getV" -> dmGetV(r, channel, fail)
      [] cmd = "readV" -> dmReadV(r, channel, fail)
      [] cmd = "updateV" ->
            LET raw == convertToRawV(newV)
            IN  IF raw.exc # "none" THEN Abort(r, raw.exc)
                ELSE dmReadV(dmUpdateV(r, channel, raw.val, fail), channel, fail)

\* for chan in args.chan: try ... except KeyError
RECURSIVE chanLoop(_, _, _, _, _, _, _)
chanLoop(cmd, st, chans, i, r, newV, fail) ==
    IF r.exc # "none" \/ i > Len(chans) THEN r
    ELSE IF ~DictHas(st.addressDict, chans[i]) THEN Abort(r, "AliasNotFound")
    ELSE LET a == addressOf(st.numBoards, DictGet(st.addressDict, chans[i]))
         IN  IF a.exc # "none" THEN Abort(r, a.exc)
             ELSE chanLoop(cmd, st, chans, i + 1,
                           chanBody(cmd, r, a.val, newV, fail), newV, fail)

\* if(args.chan[0].lower()) == 'all': args.chan = list(addressDict.keys())
expandAll(tokens, dict) ==
    IF lower(tokens[1]) = "all" THEN DictKeys(dict) ELSE tokens

chanCommand(cmd, st, argv, fail) ==
    IF ~st.saved
    THEN Ended(cmd, argv, FALSE, {}, Abort(NewRun, "FileNotFoundError"))
    ELSE IF Len(argv.chan) = 0
    THEN Ended(cmd, argv, TRUE, {}, Abort(NewRun, "IndexError"))
    ELSE Ended(cmd, argv, TRUE, {"none", "AliasNotFound"},
               chanLoop(cmd, st, expandAll(argv.chan, st.addressDict), 1, NewRun,
                        IF cmd = "updateV" THEN argv.newV ELSE 0, fail))

TokenLists == SeqsUpTo(Tokens, MaxTokens)

\* the tokens tried on readT
TempTokenLists == SeqsUpTo(Aliases \cup {"z", "All"}, MaxTokens)

\* the transport calls of an invocation that may go unanswered: each call
\* of the run in which every call is answered, or none (0)
Fails(answered) == 0..Len(answered.ops)

\* voltages given to updateV: just outside, on and inside the limits, 12.5 V
CmdVolts == {-1, 0, 12 * VoltScale + VoltScale \div 2, 60 * VoltScale, 60 * VoltScale + 1}

RunChan(cmd) ==
    /\ last = Idle
    /\ \E chan \in TokenLists :
          \E fail \in Fails(chanCommand(cmd, store, [chan |-> chan], 0)) :
             last' = chanCommand(cmd, store, [chan |-> chan], fail)
    /\ UNCHANGED <<store, calc, bridge>>

powUp == RunChan("powerUp")

powDown == RunChan("powerDown")

getPower == RunChan("getPower")

getV == RunChan("getV")

readV == RunChan("readV")

updateV ==
    /\ last = Idle
    /\ \E chan \in TokenLists, newV \in CmdVolts :
          LET argv == [chan |-> chan, newV |-> newV]
          IN  \E fail \in Fails(chanCommand("updateV", store, argv, 0)) :
                 last' = chanCommand("updateV", store, argv, fail)
    /\ UNCHANGED <<store, calc, bridge>>

\* the process has ended; the shell is ready for the next command line
Exit ==
    /\ last # Idle
    /\ last' = Idle
    /\ UNCHANGED <<store, calc, bridge>>

(***************************************************************************)
(* Sensor serial numbers.  The bridge holds a serial number in four 16-bit *)
(* registers; getTSerial turns each into two bytes, and the CLI turns the  *)
(* eight bytes into a Python int.  An int below 2^64 is written here as    *)
(* its four base-65536 digits, most significant first.                     *)
(***************************************************************************)
\* int.to_bytes(2, "big")
to_bytes(reg) == <<reg \div 256, reg % 256>>

\* b''.join(...) over the four registers of a sensor, in reading order
serialBytes(regs) ==
    to_bytes(regs[1]) \o to_bytes(regs[2]) \o to_bytes(regs[3]) \o to_bytes(regs[4])

\* int.from_bytes(serialNum, "big")
from_bytes(b) ==
    <<b[1] * 256 + b[2], b[3] * 256 + b[4], b[5] * 256 + b[6], b[7] * 256 + b[8]>>

LitA == "0x28ff641a05000000"

LitB == "0x28ff641a05000001"

\* int(s, 0): the literals the temperature directory lines below use; any
\* other word raises ValueError
BaseLit == (LitA :> <<10495, 25626, 1280, 0>>) @@ (LitB :> <<10495, 25626, 1280, 1>>)

\* init, lines 90-99: tempDict and iv_tempDict
RECURSIVE parseTempFile(_, _, _, _)
parseTempFile(file, i, tempDict, iv_tempDict) ==
    IF i > Len(file) THEN Return([tempDict |-> tempDict, iv_tempDict |-> iv_tempDict])
    ELSE LET entries == partition(file[i])
         IN  IF Len(entries) = 0
             THEN parseTempFile(file, i + 1, tempDict, iv_tempDict)
             ELSE IF entries[Len(entries)] \notin DOMAIN BaseLit
             THEN Raise("ValueError")
             ELSE LET serial == BaseLit[entries[Len(entries)]]
                  IN  parseTempFile(file, i + 1,
                                    DictSet(tempDict, entries[1], serial),
                                    DictSet(iv_tempDict, serial, entries[1]))

(***************************************************************************)
(* The bus scan as the bridge answers it in one invocation: the count that *)
(* initT returns (count register minus 32768) and the four serial          *)
(* registers of each sensor index.                                         *)
(***************************************************************************)
SensorRegs == {<<10495, 25626, 1280, 0>>, <<10495, 25626, 1280, 1>>}

Buses(maxSensors) ==
    {[numTemps |-> -1, sensors |-> <<>>]}
    \cup {[numTemps |-> Len(q), sensors |-> q] : q \in SeqsUpTo(SensorRegs, maxSensors)}

\* for i in range(numTemps): serialNum = cntrl.getTSerial(i)
RECURSIVE scanSerials(_, _, _, _, _)
scanSerials(numBoards, numTemps, i, r, fail) ==
    IF r.exc # "none" \/ i >= numTemps THEN r
    ELSE scanSerials(numBoards, numTemps, i + 1,
                     dmGetTSerial(r, numBoards, i, fail), fail)

(***************************************************************************)
(* init.                                                                   *)
(***************************************************************************)
\* lines 113-121: readV of every channel of the directory
RECURSIVE initChannels(_, _, _, _)
initChannels(st, i, r, fail) ==
    IF r.exc # "none" \/ i > Len(st.addressDict) THEN r
    ELSE LET a == addressOf(st.numBoards, st.addressDict[i][2])
         IN  IF a.exc # "none" THEN Abort(r, a.exc)
             ELSE initChannels(st, i + 1, dmReadV(r, a.val, fail), fail)

\* variant: the board count of the settings already persisted is kept
initSettings_KeepsBoardCount(argv) ==
    LET ad == parseAddressFile(argv.addressFile, 1, <<>>)
        td == parseTempFile(argv.tempFile, 1, <<>>, <<>>)
    IN  IF ad.exc # "none" THEN Raise(ad.exc)
        ELSE IF td.exc # "none" THEN Raise(td.exc)
        ELSE Return(Settings(IF store.saved THEN store.numBoards ELSE argv.numBoards,
                             ad.val, td.val.tempDict, td.val.iv_tempDict))

\* lines 80-102: the settings init builds from its arguments and files
initSettings(argv) ==
    LET ad == parseAddressFile(argv.addressFile, 1, <<>>)
        td == parseTempFile(argv.tempFile, 1, <<>>, <<>>)
    IN  IF ad.exc # "none" THEN Raise(ad.exc)
        ELSE IF td.exc # "none" THEN Raise(td.exc)
        ELSE Return(Settings(argv.numBoards, ad.val, td.val.tempDict,
                             td.val.iv_tempDict))

\* lines 107-135: the connection test; init has no cntrl.close()
initCommand(argv, fail) ==
    LET st == initSettings(argv)
    IN  IF st.exc # "none"
        THEN Ended("init", argv, FALSE, {}, Abort(NewRun, st.exc))
        ELSE LET r1 == initChannels(st.val, 1, NewRun, fail)
                 r2 == IF r1.exc # "none" THEN r1
                       ELSE dmInitT(r1, argv.numBoards, fail)
                 r3 == scanSerials(argv.numBoards, argv.bus.numTemps, 0, r2, fail)
             IN  Ended("init", argv, TRUE, {}, r3)

init(numBoardsSet, dacFiles, tempFiles, buses) ==
    /\ last = Idle
    /\ \E numBoards \in numBoardsSet, addressFile \in dacFiles,
          tempFile \in tempFiles, bus \in buses :
          LET argv == [numBoards |-> numBoards, addressFile |-> addressFile,
                       tempFile |-> tempFile, bus |-> bus]
              st == initSettings(argv)
          IN  \E fail \in Fails(initCommand(argv, 0)) :
                 /\ last' = initCommand(argv, fail)
                 /\ store' = IF st.exc = "none" THEN st.val ELSE store
    /\ UNCHANGED calc

(***************************************************************************)
(* The temperature commands: readT, numT, serT.                            *)
(***************************************************************************)
\* numTemps = cntrl.initT(); if(numTemps < 0): raise RuntimeError
scanStart(st, bus, fail) ==
    LET r == dmInitT(NewRun, st.numBoards, fail)
    IN  IF r.exc = "none" /\ bus.numTemps < 0 THEN Abort(r, "RuntimeError") ELSE r

\* variant: the indices count from one
RECURSIVE serialIndex_FromOne(_, _, _)
serialIndex_FromOne(bus, i, t_ser_dict) ==
    IF i >= bus.numTemps THEN t_ser_dict
    ELSE serialIndex_FromOne(bus, i + 1,
                             DictSet(t_ser_dict,
                                     from_bytes(serialBytes(bus.sensors[i + 1])), i + 1))

\* readT, lines 328-331: t_ser_dict, serial number -> index
RECURSIVE serialIndex(_, _, _)
serialIndex(bus, i, t_ser_dict) ==
    IF i >= bus.numTemps THEN t_ser_dict
    ELSE serialIndex(bus, i + 1,
                     DictSet(t_ser_dict, from_bytes(serialBytes(bus.sensors[i + 1])), i))

\* variant: one error for both ways an alias fails to resolve
RECURSIVE resolveAliases_OneError(_, _, _, _, _)
resolveAliases_OneError(st, t_ser_dict, aliases, i, alias_to_index) ==
    IF i > Len(aliases) THEN Return(alias_to_index)
    ELSE IF ~DictHas(st.tempDict, aliases[i]) THEN Raise("AliasNotFound")
    ELSE LET serialNum == DictGet(st.tempDict, aliases[i])
         IN  IF ~DictHas(t_ser_dict, serialNum) THEN Raise("AliasNotFound")
             ELSE resolveAliases_OneError(st, t_ser_dict, aliases, i + 1,
                    DictSet(alias_to_index, aliases[i], DictGet(t_ser_dict, serialNum)))

\* readT, lines 336-352: alias -> serial number -> index
RECURSIVE resolveAliases(_, _, _, _, _)
resolveAliases(st, t_ser_dict, aliases, i, alias_to_index) ==
    IF i > Len(aliases) THEN Return(alias_to_index)
    ELSE IF ~DictHas(st.tempDict, aliases[i]) THEN Raise("AliasNotFound")
    ELSE LET serialNum == DictGet(st.tempDict, aliases[i])
         IN  IF ~DictHas(t_ser_dict, serialNum) THEN Raise("SensorNotOnBus")
             ELSE resolveAliases(st, t_ser_dict, aliases, i + 1,
                    DictSet(alias_to_index, aliases[i], DictGet(t_ser_dict, serialNum)))

\* readT, lines 354-356
RECURSIVE recordAll(_, _, _, _, _, _)
recordAll(st, aliases, alias_to_index, i, r, fail) ==
    IF r.exc # "none" \/ i > Len(aliases) THEN r
    ELSE recordAll(st, aliases, alias_to_index, i + 1,
                   dmRecordT(r, st.numBoards, DictGet(alias_to_index, aliases[i]), fail),
                   fail)

\* variant: the aliases are read from the last to the first
RECURSIVE getAll_Reversed(_, _, _, _, _, _)
getAll_Reversed(st, aliases, alias_to_index, i, r, fail) ==
    IF r.exc # "none" \/ i > Len(aliases) THEN r
    ELSE getAll_Reversed(st, aliases, alias_to_index, i + 1,
                         dmGetT(r, st.numBoards,
                                DictGet(alias_to_index, aliases[Len(aliases) + 1 - i]),
                                fail),
                         fail)

\* readT, lines 358-364
RECURSIVE getAll(_, _, _, _, _, _)
getAll(st, aliases, alias_to_index, i, r, fail) ==
    IF r.exc # "none" \/ i > Len(aliases) THEN r
    ELSE getAll(st, aliases, alias_to_index, i + 1,
                dmGetT(r, st.numBoards, DictGet(alias_to_index, aliases[i]), fail),
                fail)

\* slept: the number of transport calls made before time.sleep(0.75) ran,
\* -1 when the invocation never reached it
readTCommand(st, argv, fail) ==
    IF ~st.saved
    THEN Ended("readT", argv, FALSE, {}, Abort(NewRun, "FileNotFoundError"))
         @@ [slept |-> -1]
    ELSE
    LET closesOn == {"none", "AliasNotFound", "SensorNotOnBus"}
        r1 == scanSerials(st.numBoards, argv.bus.numTemps, 0,
                          scanStart(st, argv.bus, fail), fail)
        t_ser_dict == serialIndex(argv.bus, 0, <<>>)
    IN  IF r1.exc # "none"
        THEN Ended("readT", argv, TRUE, closesOn, r1) @@ [slept |-> -1]
        ELSE IF Len(argv.alias) = 0
        THEN Ended("readT", argv, TRUE, closesOn, Abort(r1, "IndexError"))
             @@ [slept |-> -1]
        ELSE
        LET aliases == expandAll(argv.alias, st.tempDict)
            res == resolveAliases(st, t_ser_dict, aliases, 1, <<>>)
        IN  IF res.exc # "none"
            THEN Ended("readT", argv, TRUE, closesOn, Abort(r1, res.exc))
                 @@ [slept |-> -1]
            ELSE
            LET r2 == recordAll(st, aliases, res.val, 1, r1, fail)
                r3 == getAll(st, aliases, res.val, 1, r2, fail)
            IN  Ended("readT", argv, TRUE, closesOn, r3)
                @@ [slept |-> IF r2.exc = "none" THEN Len(r2.ops) ELSE -1]

numTCommand(st, argv, fail) ==
    IF ~st.saved
    THEN Ended("numTempSensors", argv, FALSE, {}, Abort(NewRun, "FileNotFoundError"))
    ELSE Ended("numTempSensors", argv, TRUE, {"none"}, scanStart(st, argv.bus, fail))

\* serT, lines 405-414: a serial number without an alias ends the command
RECURSIVE serTLoop(_, _, _, _, _)
serTLoop(st, bus, i, r, fail) ==
    IF r.exc # "none" \/ i >= bus.numTemps THEN r
    ELSE LET r1 == dmGetTSerial(r, st.numBoards, i, fail)
         IN  IF r1.exc # "none" THEN r1
             ELSE IF ~DictHas(st.iv_tempDict, from_bytes(serialBytes(bus.sensors[i + 1])))
             THEN Abort(r1, "NoAliasFound")
             ELSE serTLoop(st, bus, i + 1, r1, fail)

serTCommand(st, argv, fail) ==
    IF ~st.saved
    THEN Ended("tempSensorSerNums", argv, FALSE, {}, Abort(NewRun, "FileNotFoundError"))
    ELSE Ended("tempSensorSerNums", argv, TRUE, {"none", "NoAliasFound"},
               serTLoop(st, argv.bus, 0, scanStart(st, argv.bus, fail), fail))

readT ==
    /\ last = Idle
    /\ \E alias \in TempTokenLists, bus \in Buses(MaxSensors) :
          LET argv == [alias |-> alias, bus |-> bus]
          IN  \E fail \in Fails(readTCommand(store, argv, 0)) :
                 last' = readTCommand(store, argv, fail)
    /\ UNCHANGED <<store, calc, bridge>>

numT ==
    /\ last = Idle
    /\ \E bus \in Buses(MaxSensors) :
          \E fail \in Fails(numTCommand(store, [bus |-> bus], 0)) :
             last' = numTCommand(store, [bus |-> bus], fail)
    /\ UNCHANGED <<store, calc, bridge>>

serT ==
    /\ last = Idle
    /\ \E bus \in Buses(MaxSensors) :
          \E fail \in Fails(serTCommand(store, [bus |-> bus], 0)) :
             last' = serTCommand(store, [bus |-> bus], fail)
    /\ UNCHANGED <<store, calc, bridge>>

(***************************************************************************)
(* Directory files given to init.                                          *)
(***************************************************************************)
DacLines ==
    { <<"a", "0", "1", "2">>,          \* channel 0, DAC 1, board 2
      <<"b", "3", "0", "1">>,          \* channel 3, DAC 0, board 1
      <<"a", "4", "0", "0">>,          \* channel 4: a DAC has channels 0-3
      <<"b", "0", "0", "4">>,          \* board 4: one past the last of 4 boards
      <<"a", "-1", "0", "0">>,         \* negative channel
      <<"b", "1", "1", "#", "old">>,   \* two fields, trailing comment
      <<"b">>,                         \* alias without numbers
      <<"a", "x", "0", "0">>,          \* a word that is no number
      <<"#", "a", "0", "0", "0">>,     \* comment line
      <<>> }                           \* blank line

TempLines ==
    { <<"a", LitA>>, <<"b", LitB>>,
      <<"a", LitB>>,                   \* alias again, other serial number
      <<"b", LitA>>,                   \* serial number again, other alias
      <<"a", "x", LitA, "#", "c">>,    \* words in between, trailing comment
      <<"b">> }                        \* alias without serial number

DacFiles == SeqsUpTo(DacLines, MaxLines)

TempFiles == SeqsUpTo(TempLines, MaxLines)

NumBoardsSet == {1, NUM_BOARDS}

(***************************************************************************)
(* The DAC side: init over every DAC directory, and the channel commands.  *)
(***************************************************************************)
Init ==
    /\ store = NoStore
    /\ last = Idle
    /\ calc = NoCalc
    /\ bridge = PowerOn

initDac ==
    /\ init(NumBoardsSet, DacFiles, {<< <<"a", LitA>> >>},
            {b \in Buses(1) : b.numTemps # 0})
    /\ UNCHANGED bridge

Next ==
    \/ initDac
    \/ powUp
    \/ powDown
    \/ getPower
    \/ getV
    \/ readV
    \/ updateV
    \/ Exit

Spec == Init /\ [][Next]_vars

(***************************************************************************)
(* The temperature side: init over every temperature directory, and the    *)
(* temperature commands.                                                   *)
(***************************************************************************)
initTemp ==
    /\ init({NUM_BOARDS}, {<< <<"a", "0", "1", "2">> >>}, TempFiles,
            Buses(MaxSensors))
    /\ UNCHANGED bridge

NextTemp ==
    \/ initTemp
    \/ readT
    \/ numT
    \/ serT
    \/ Exit

SpecTemp == Init /\ [][NextTemp]_vars

(***************************************************************************)
(* The conversions and the address arithmetic on their own: DacMaster's    *)
(* functions applied to every argument within the bounds.  calc holds the  *)
(* arguments and what came back.                                           *)
(***************************************************************************)
\* coordinates around the widths of a board: 4 channels, 2 DACs, numBoards boards
Coords(numBoards) == (-1..4) \X (-1..2) \X (-1..numBoards)

applyAddress ==
    /\ calc = NoCalc
    /\ \E numBoards \in 1..MaxBoards :
          \E c1 \in Coords(numBoards), c2 \in Coords(numBoards) :
             calc' = [fn |-> "address", numBoards |-> numBoards, c1 |-> c1, c2 |-> c2,
                      a1 |-> addressOf(numBoards, c1).val,
                      a2 |-> addressOf(numBoards, c2).val]
    /\ UNCHANGED <<store, last, bridge>>

applySensorAddress ==
    /\ calc = NoCalc
    /\ \E numBoards \in 1..MaxBoards, i \in 0..MaxIndex :
          calc' = [fn |-> "sensor", numBoards |-> numBoards, i |-> i,
                   initT |-> dmInitT(NewRun, numBoards, 0).ops,
                   getTSerial |-> dmGetTSerial(NewRun, numBoards, i, 0).ops,
                   recordT |-> dmRecordT(NewRun, numBoards, i, 0).ops,
                   getT |-> dmGetT(NewRun, numBoards, i, 0).ops]
    /\ UNCHANGED <<store, last, bridge>>

applyConvertToRawV ==
    /\ calc = NoCalc
    /\ \E actualV \in (-VoltMargin)..(60 * VoltScale + VoltMargin) :
          calc' = [fn |-> "convertToRawV", actualV |-> actualV,
                   raw |-> convertToRawV(actualV),
                   updateV |-> chanBody("updateV", NewRun, 0, actualV, 0)]
    /\ UNCHANGED <<store, last, bridge>>

applyConvertToActualV ==
    /\ calc = NoCalc
    /\ \E rawV \in 0..4095 :
          calc' = [fn |-> "convertToActualV", rawV |-> rawV,
                   actualV |-> convertToActualV(rawV),
                   back |-> convertToRawV(convertToActualV(rawV))]
    /\ UNCHANGED <<store, last, bridge>>

\* convertToDegC on every signed 16-bit raw temperature
applyConvertToDegC ==
    /\ calc = NoCalc
    /\ \E rawTemp \in (-32768)..32767 :
          calc' = [fn |-> "convertToDegC", rawTemp |-> rawTemp,
                   degC |-> convertToDegC(rawTemp)]
    /\ UNCHANGED <<store, last, bridge>>

\* the six channel methods on a channel address, with a code to write
applyChannelOps ==
    /\ calc = NoCalc
    /\ \E a \in 0..(MaxBoards * 8 - 1), newRawV \in {0, 853, 4095} :
          calc' = [fn |-> "channel", address |-> a, newRawV |-> newRawV,
                   updateV |-> dmUpdateV(NewRun, a, newRawV, 0).ops,
                   getV |-> dmGetV(NewRun, a, 0).ops,
                   readV |-> dmReadV(NewRun, a, 0).ops,
                   powerUp |-> dmPowerUp(NewRun, a, 0).ops,
                   powerDown |-> dmPowerDown(NewRun, a, 0).ops,
                   getPower |-> dmGetPower(NewRun, a, 0).ops]
    /\ UNCHANGED <<store, last, bridge>>

\* getTSerial(i) in a session whose initT returned count, the bridge
\* answering the four register reads with regs
applyGetTSerial ==
    /\ calc = NoCalc
    /\ \E numBoards \in 1..MaxBoards, count \in 0..MaxSensors, i \in 0..MaxIndex,
          regs \in SensorRegs :
          calc' = [fn |-> "getTSerial", numBoards |-> numBoards, count |-> count,
                   i |-> i, regs |-> regs,
                   run |-> dmGetTSerial(NewRun, numBoards, i, 0),
                   serialNum |-> serialBytes(regs)]
    /\ UNCHANGED <<store, last, bridge>>

\* values of a 16-bit register: the ends, the middle, and the raw
\* temperature -7040 of a sensor that is not connected
RegValues == {0, 1, 32768 - 7040, 32767, 32768, 65535}

\* getT(i), the bridge answering the register read with temp_uint16
applyGetT ==
    /\ calc = NoCalc
    /\ \E numBoards \in 1..MaxBoards, i \in (-1)..MaxIndex, temp_uint16 \in RegValues :
          LET run == dmGetT(NewRun, numBoards, i, 0)
          IN  calc' = [fn |-> "getT", numBoards |-> numBoards, i |-> i,
                       temp_uint16 |-> temp_uint16, run |-> run,
                       val |-> IF run.exc = "none" THEN Return(debias(temp_uint16))
                               ELSE Raise(run.exc)]
    /\ UNCHANGED <<store, last, bridge>>

Clear ==
    /\ calc # NoCalc
    /\ calc' = NoCalc
    /\ UNCHANGED <<store, last, bridge>>

NextPure ==
    \/ applyAddress
    \/ applySensorAddress
    \/ applyConvertToRawV
    \/ applyConvertToActualV
    \/ applyConvertToDegC
    \/ applyChannelOps
    \/ applyGetTSerial
    \/ applyGetT
    \/ Clear

SpecPure == Init /\ [][NextPure]_vars

(***************************************************************************)
(* The read-back scenario: init with a DAC directory and an empty          *)
(* temperature directory, then updateV and getV against a bridge whose     *)
(* holding registers are followed.                                         *)
(***************************************************************************)
\* directory lines of a 4-board session; a and the second b share a register
BridgeLines == { <<"a", "0", "1", "2">>, <<"b", "3", "0", "1">>, <<"b", "0", "1", "2">> }

BridgeDacFiles == SeqsUpTo(BridgeLines, MaxLines)

BridgeTokenLists == SeqsUpTo(Aliases \cup {"All"}, MaxTokens)

\* voltages commanded: outside the range, the two ends, 12.5 V, and just
\* below, on and just short of the step above code 853
BridgeVolts ==
    {-1, 0, 60 * VoltScale, 12 * VoltScale + VoltScale \div 2,
     convertToActualV(853) - 1, convertToActualV(853), convertToActualV(854) - 1}

initBridge ==
    /\ init({NUM_BOARDS}, BridgeDacFiles, {<<>>}, {[numTemps |-> 0, sensors |-> <<>>]})
    /\ bridge' = [bridge EXCEPT !.written = <<>>]

\* what is known of the aliases after an updateV: an alias of the batch of a
\* run without error goes with its register write and the voltage; an alias
\* whose register this run wrote to otherwise is forgotten
noteWrites(written, run, batch, newV) ==
    LET touched == {run.ops[j].address :
                      j \in {i \in 1..Len(run.ops) : run.ops[i].call = "write_register"}}
        kept == {k \in DOMAIN written : written[k].op.address \notin touched}
        named == IF run.exc = "none" THEN Range(batch) ELSE {}
    IN  IF kept \cup named = {} THEN <<>>
        ELSE [k \in kept \cup named |->
                IF k \in named
                THEN [op |-> run.ops[2 * (CHOOSE i \in 1..Len(batch) : batch[i] = k) - 1],
                      newV |-> newV]
                ELSE written[k]]

\* updateV with the bridge taking the writes.  The write that got no answer
\* has reached the bridge (took) or not.
updateVBridge ==
    /\ last = Idle
    /\ \E chan \in BridgeTokenLists, newV \in BridgeVolts, took \in BOOLEAN :
          LET argv == [chan |-> chan, newV |-> newV]
          IN  \E fail \in Fails(chanCommand("updateV", store, argv, 0)) :
                 LET run == chanCommand("updateV", store, argv, fail)
                     reached == IF took /\ run.exc = "TransportError"
                                THEN Len(run.ops) ELSE Answered(run)
                 IN  /\ last' = run
                     /\ bridge' =
                           [holding |-> applyWrites(bridge.holding, run.ops, 1, reached),
                            written |-> noteWrites(bridge.written, run,
                                                   expandAll(chan, store.addressDict),
                                                   newV),
                            on |-> applyCoilWrites(bridge.on, run.ops, 1, reached)]
    /\ UNCHANGED <<store, calc>>

\* getV with the bridge answering: got is what cntrl.getV returned for each
\* answered call, volts what the command printed for it
getVBridge ==
    /\ last = Idle
    /\ \E chan \in BridgeTokenLists, unwritten \in {0, 4095} :
          \E fail \in Fails(chanCommand("getV", store, [chan |-> chan], 0)) :
             LET run == chanCommand("getV", store, [chan |-> chan], fail)
                 got == [j \in 1..Answered(run) |->
                           bridgeRead(bridge.holding, run.ops[j].address, unwritten)]
             IN  last' = run @@ [got |-> got,
                                 volts |-> [j \in 1..Answered(run) |->
                                              convertToActualV(got[j])]]
    /\ UNCHANGED <<store, calc, bridge>>

NextBridge ==
    \/ initBridge
    \/ updateVBridge
    \/ getVBridge
    \/ Exit

SpecBridge == Init /\ [][NextBridge]_vars

(***************************************************************************)
(* Voltage and power side by side: init, updateV, powUp and powDown        *)
(* against a bridge whose holding registers and power coils are followed.  *)
(***************************************************************************)
\* voltages commanded: 12.5 V and one outside the range
PowerVolts == {-1, 12 * VoltScale + VoltScale \div 2}

\* what an invocation leaves in the bridge: the register and coil writes
\* that reached it, the call that got no answer among them or not (took)
bridgeAfter(run, took) ==
    LET reached == IF took /\ run.exc = "TransportError"
                   THEN Len(run.ops) ELSE Answered(run)
    IN  [bridge EXCEPT !.holding = applyWrites(bridge.holding, run.ops, 1, reached),
                       !.on = applyCoilWrites(bridge.on, run.ops, 1, reached)]

updateVPower ==
    /\ last = Idle
    /\ \E chan \in BridgeTokenLists, newV \in PowerVolts, took \in BOOLEAN :
          LET argv == [chan |-> chan, newV |-> newV]
          IN  \E fail \in Fails(chanCommand("updateV", store, argv, 0)) :
                 /\ last' = chanCommand("updateV", store, argv, fail)
                 /\ bridge' = bridgeAfter(last', took)
    /\ UNCHANGED <<store, calc>>

RunPower(cmd) ==
    /\ last = Idle
    /\ \E chan \in BridgeTokenLists, took \in BOOLEAN :
          \E fail \in Fails(chanCommand(cmd, store, [chan |-> chan], 0)) :
             /\ last' = chanCommand(cmd, store, [chan |-> chan], fail)
             /\ bridge' = bridgeAfter(last', took)
    /\ UNCHANGED <<store, calc>>

powUpPower == RunPower("powerUp")

powDownPower == RunPower("powerDown")

NextPower ==
    \/ initBridge
    \/ updateVPower
    \/ powUpPower
    \/ powDownPower
    \/ Exit

SpecPower == Init /\ [][NextPower]_vars

(***************************************************************************)
(* Properties.  The channel commands are read off last: the batch is the   *)
(* token list after the wildcard expansion, and every channel of the batch *)
(* that is reached makes CallsPer transport calls.                         *)
(***************************************************************************)
IsChanCmd == last.cmd \in ChanCmds /\ last.opened /\ Len(last.argv.chan) > 0

Batch == expandAll(last.argv.chan, store.addressDict)

CallsPer(cmd) == IF cmd \in {"powerUp", "powerDown", "updateV"} THEN 2 ELSE 1

\* the directory entry of the channel that transport call j was made for
OpCoord(j) == DictGet(store.addressDict, Batch[((j - 1) \div CallsPer(last.cmd)) + 1])

\* the first channel of the batch resolves to an address
FirstResolves ==
    /\ Len(Batch) > 0
    /\ DictHas(store.addressDict, Batch[1])
    /\ Len(DictGet(store.addressDict, Batch[1])) \in 2..4

OutOfRangeV(v) == v < 0 \/ v > 60 * VoltScale

\* C1: a channel command with a token that is in no directory entry ends
\* with AliasNotFound and has made no transport call for any token of the
\* batch, the tokens before the missing one included.  (Stated for token
\* lists that do not start with the wildcard and runs that no other error
\* ends.)
C1_MissingAliasIssuesNothing ==
    (/\ IsChanCmd
     /\ lower(last.argv.chan[1]) # "all"
     /\ \E i \in 1..Len(last.argv.chan) :
           ~DictHas(store.addressDict, last.argv.chan[i])
     /\ last.exc \notin {"TransportError", "ValueError", "TypeError"})
    => (last.exc = "AliasNotFound" /\ last.ops = <<>>)

\* C2: every invocation that opened the port has closed it when it ends.
C2_ClosedOnEveryExit == (last # Idle /\ last.opened) => last.closed

\* C3 as stated: updateV with a voltage below 0 or above 60 ends with the
\* voltage error and makes no transport call; 0 and 60 lead to a write.
C3_OutOfRangeAlwaysVoltageError ==
    (IsChanCmd /\ last.cmd = "updateV")
    => /\ OutOfRangeV(last.argv.newV) => (last.exc = "ValueError" /\ last.ops = <<>>)
       /\ last.argv.newV \in {0, 60 * VoltScale}
             => (Len(last.ops) > 0 /\ last.ops[1].call = "write_register")

\* C3 amended: updateV with a voltage below 0 or above 60 makes no transport
\* call for any channel of the batch, and ends with the voltage error when the
\* first channel of the batch resolves to an address; under the same
\* condition 0 V and 60 V lead to a register write, of the codes 0 and 4095.
C3_OutOfRangeWritesNothing ==
    (IsChanCmd /\ last.cmd = "updateV")
    => /\ OutOfRangeV(last.argv.newV)
             => /\ last.ops = <<>>
                /\ FirstResolves => last.exc = "ValueError"
                /\ last.exc # "none" \/ Batch = <<>>
       /\ (last.argv.newV \in {0, 60 * VoltScale} /\ FirstResolves)
             => /\ Len(last.ops) > 0
                /\ last.ops[1].call = "write_register"
                /\ last.ops[1].functioncode = 6
                /\ last.ops[1].value = IF last.argv.newV = 0 THEN 0 ELSE 4095

C3_Witness ==
    /\ IsChanCmd /\ last.cmd = "updateV"
    /\ last.argv.newV = 60 * VoltScale + 1
    /\ last.argv.chan = <<"a", "b">>
    /\ FirstResolves
    /\ last.exc = "ValueError"

\* C4 as stated: a directory line `alias b c ch` is board b, chip c, channel
\* ch, and the channel commands for the alias pass 8*b + 4*c + ch.
C4_BoardChipChannelOrder ==
    IsChanCmd
    => \A j \in 1..Len(last.ops) :
          LET t == OpCoord(j)
          IN  (Len(t) = 3 /\ t[1] \in 0..(store.numBoards - 1)
                 /\ t[2] \in 0..1 /\ t[3] \in 0..3)
              => last.ops[j].address = 8 * t[1] + 4 * t[2] + t[3]

\* C4 amended: a directory line `alias x y z` is channel x, chip y, board z
\* (x in 0..3, y in 0..1, z < boardCount), and every transport call a channel
\* command makes for the alias passes 8*z + 4*y + x; `a 0 1 2` is at 20.
C4_ChannelChipBoardOrder ==
    IsChanCmd
    => \A j \in 1..Len(last.ops) :
          LET t == OpCoord(j)
          IN  /\ (Len(t) = 3 /\ t[1] \in 0..3 /\ t[2] \in 0..1
                    /\ t[3] \in 0..(store.numBoards - 1))
                 => last.ops[j].address = 8 * t[3] + 4 * t[2] + t[1]
              /\ t = <<0, 1, 2>> => last.ops[j].address = 20

C4_Witness ==
    /\ IsChanCmd /\ last.cmd = "powerUp"
    /\ last.argv.chan = <<"b", "a">>
    /\ store.numBoards = 4
    /\ store.addressDict = << <<"a", <<0, 1, 2>> >>, <<"b", <<3, 0, 1>> >> >>
    /\ Len(last.ops) = 4
    /\ last.ops[1].address = 11
    /\ last.ops[3].address = 20

\* a directory entry with a component that fits no width, whichever of its
\* numbers is taken for the board: negative, or above 3 (a session has at
\* most 4 boards here)
OutOfWidth(t) == \E k \in 1..Len(t) : t[k] < 0 \/ t[k] > 3

\* C5: no channel command passes the transport an address that comes from a
\* coordinate with a component outside its width.
C5_OutOfWidthNeverSent ==
    IsChanCmd => \A j \in 1..Len(last.ops) : ~OutOfWidth(OpCoord(j))

\* C6: for in-width coordinates the address is within 0..boardCount*8-1, two
\* different coordinates never share an address, and with 4 boards channel 0
\* of DAC 0 of board 0 is at 0 and channel 3 of DAC 1 of board 3 is at 31.
InWidth(numBoards, c) ==
    c[1] \in 0..3 /\ c[2] \in 0..1 /\ c[3] \in 0..(numBoards - 1)

C6_AddressInjective ==
    calc.fn = "address"
    => /\ InWidth(calc.numBoards, calc.c1) => calc.a1 \in 0..(calc.numBoards * 8 - 1)
       /\ (InWidth(calc.numBoards, calc.c1) /\ InWidth(calc.numBoards, calc.c2)
             /\ calc.c1 # calc.c2) => calc.a1 # calc.a2
       /\ (calc.numBoards = 4 /\ calc.c1 = <<0, 0, 0>>) => calc.a1 = 0
       /\ (calc.numBoards = 4 /\ calc.c1 = <<3, 1, 3>>) => calc.a1 = 31

C6_Witness ==
    /\ calc.fn = "address" /\ calc.numBoards = 4
    /\ calc.c1 = <<3, 1, 3>> /\ calc.a1 = 31
    /\ calc.c2 = <<2, 1, 3>> /\ calc.a2 = 30

\* C7: the addresses of a session lie in three disjoint zones: every address
\* of a channel command within 0..boardCount*8-1, the count register at
\* boardCount*8, and the four registers of sensor i at
\* 1 + boardCount*8 + 4*i + r, r in 0..3.
C7_ThreeZones ==
    /\ IsChanCmd
       => \A j \in 1..Len(last.ops) :
             last.ops[j].address \in 0..(store.numBoards * 8 - 1)
    /\ (last.cmd = "init" /\ last.opened)
       => LET n == Len(store.addressDict)
          IN  \A j \in (n + 1)..Len(last.ops) :
                 IF j = n + 1
                 THEN last.ops[j].address = store.numBoards * 8
                 ELSE last.ops[j].address =
                         1 + store.numBoards * 8 + 4 * ((j - n - 2) \div 4)
                         + ((j - n - 2) % 4)

\* C8 as stated: with 4 boards the count register is at 64, register 0 of
\* sensor 0 at 65 and register 3 of sensor 2 at 76.
C8_CountRegisterAt64 ==
    (calc.fn = "sensor" /\ calc.numBoards = 4)
    => /\ calc.initT[1].address = 64
       /\ calc.i = 0 => calc.getTSerial[1].address = 65
       /\ calc.i = 2 => calc.getTSerial[4].address = 76

\* C8 amended: with 4 boards the count register is at 32, register 0 of
\* sensor 0 at 33 and register 3 of sensor 2 at 44.
C8_CountRegisterAt32 ==
    (calc.fn = "sensor" /\ calc.numBoards = 4)
    => /\ calc.initT[1].address = 32
       /\ calc.i = 0 => calc.getTSerial[1].address = 33
       /\ calc.i = 2 => calc.getTSerial[4].address = 44

C8_Witness ==
    /\ calc.fn = "sensor" /\ calc.numBoards = 4 /\ calc.i = 2
    /\ calc.initT[1].address = 32
    /\ calc.getTSerial[4].address = 44

\* C9: for a voltage within [0, 60] the code is the whole part of
\* v*4096/60 when that is below 4096 and 4095 otherwise; so the code, and
\* what updateV writes, is within 0..4095, and 60 V gives 4095.
C9_TruncateAndClamp ==
    (calc.fn = "convertToRawV" /\ ~OutOfRangeV(calc.actualV))
    => /\ calc.raw.exc = "none"
       /\ LET q == calc.raw.val
              num == calc.actualV * 4096
              den == 60 * VoltScale
          IN  /\ num < 4096 * den => (q * den <= num /\ num < (q + 1) * den)
              /\ num >= 4096 * den => q = 4095
              /\ q \in 0..4095
              /\ calc.actualV = 60 * VoltScale => q = 4095
              /\ Len(calc.updateV.ops) > 0
              /\ calc.updateV.ops[1].call = "write_register"
              /\ calc.updateV.ops[1].value = q

C9_Witness ==
    /\ calc.fn = "convertToRawV"
    /\ calc.actualV = 60 * VoltScale
    /\ calc.raw = Return(4095)
    /\ calc.updateV.ops[1].value = 4095

\* C10: converting a code in 0..4095 to volts and back gives the code again,
\* the voltage in between being code*60/4096; 60 V converts to 4095, not 4096.
C10_RoundTrip ==
    /\ calc.fn = "convertToActualV"
       => /\ calc.actualV * 4096 = calc.rawV * 60 * VoltScale
          /\ calc.actualV < 60 * VoltScale
          /\ calc.back = Return(calc.rawV)
    /\ (calc.fn = "convertToRawV" /\ calc.actualV = 60 * VoltScale)
       => (calc.raw.exc = "none" /\ calc.raw.val = 4095 /\ calc.raw.val # 4096)

C10_Witness ==
    /\ calc.fn = "convertToActualV"
    /\ calc.rawV = 853
    /\ calc.actualV = 853 * 15
    /\ calc.back = Return(853)

\* one DAC step, 60/4096 V
Step == convertToActualV(1)

\* what getV has to do with the register write w of voltage v that the last
\* updateV made for the alias of its call j
ReadsBack(j, w) ==
    LET code == convertToRawV(w.newV)
    IN  /\ w.op.call = "write_register" /\ w.op.functioncode = 6
        /\ code.exc = "none" /\ w.op.value = code.val
        /\ last.ops[j] = read_register(w.op.address, 3)
        /\ last.got[j] = code.val
        /\ last.volts[j] <= w.newV
        /\ w.newV = 12 * VoltScale + VoltScale \div 2 => last.got[j] = 853

\* C11 as stated: after an updateV of an alias that ended without error,
\* with the directory the same and no write to its register since, getV of
\* the alias reads the holding register that updateV wrote, gets the code of
\* the voltage, and the voltage it shows is at most v and less than one
\* step below v; 12.5 V is code 853.
C11_ReadsBackLessThanOneStep ==
    (last.cmd = "getV" /\ last.opened /\ Len(last.argv.chan) > 0)
    => \A j \in 1..Len(last.got) :
          Batch[j] \in DOMAIN bridge.written
          => /\ ReadsBack(j, bridge.written[Batch[j]])
             /\ bridge.written[Batch[j]].newV - last.volts[j] < Step

\* C11 amended: the same, the voltage shown being at most one step below v,
\* and less than one step below v for every v under 60 V; after updateV of
\* 60 V getV gets code 4095, which is exactly one step below.
C11_ReadsBackWithinOneStep ==
    (last.cmd = "getV" /\ last.opened /\ Len(last.argv.chan) > 0)
    => \A j \in 1..Len(last.got) :
          Batch[j] \in DOMAIN bridge.written
          => LET w == bridge.written[Batch[j]]
             IN  /\ ReadsBack(j, w)
                 /\ w.newV - last.volts[j] <= Step
                 /\ w.newV < 60 * VoltScale => w.newV - last.volts[j] < Step
                 /\ w.newV = 60 * VoltScale
                       => (last.got[j] = 4095 /\ w.newV - last.volts[j] = Step)

C11_Witness ==
    /\ last.cmd = "getV" /\ last.exc = "none"
    /\ last.argv.chan = <<"a">>
    /\ "a" \in DOMAIN bridge.written
    /\ bridge.written["a"].newV = 12 * VoltScale + VoltScale \div 2
    /\ last.ops = <<read_register(20, 3)>>
    /\ last.got = <<853>>
    /\ last.volts = <<853 * Step>>

\* the tokens a batch command looks up when only the lone wildcard expands
LoneAllBatch(tokens, dict) ==
    IF Len(tokens) = 1 /\ lower(tokens[1]) = "all" THEN DictKeys(dict) ELSE tokens

\* C12: a channel command runs over every alias of the directory, in
\* insertion order, exactly when its token list is the single token `all`
\* in any letter case; with any other list, one of several tokens that starts
\* with `all` included, it runs over the tokens as given.
C12_ExpandsOnlyLoneAll ==
    IsChanCmd
    => \E fail \in 0..Len(last.ops) :
          LET r == chanLoop(last.cmd, store,
                            LoneAllBatch(last.argv.chan, store.addressDict), 1, NewRun,
                            IF last.cmd = "updateV" THEN last.argv.newV ELSE 0, fail)
          IN  last.ops = r.ops /\ last.exc = r.exc

(***************************************************************************)
(* Properties of the temperature commands.  The bus of an invocation is in *)
(* last.argv.bus; the scan of n sensors takes 1 + 4n register reads.       *)
(***************************************************************************)
TempBatch == expandAll(last.argv.alias, store.tempDict)

ScanLen == 1 + 4 * last.argv.bus.numTemps

\* the serial numbers the scan of this invocation found
BusSerials ==
    {from_bytes(serialBytes(last.argv.bus.sensors[i])) : i \in 1..last.argv.bus.numTemps}

\* readT has scanned the bus, every read answered, and has aliases to resolve
ReadTScanned ==
    /\ last.cmd = "readT" /\ last.opened
    /\ Len(last.argv.alias) > 0
    /\ last.argv.bus.numTemps >= 0
    /\ Len(last.ops) >= ScanLen
    /\ last.exc = "TransportError" => Len(last.ops) > ScanLen

InDirectory(alias) == DictHas(store.tempDict, alias)

OnBus(alias) == InDirectory(alias) /\ DictGet(store.tempDict, alias) \in BusSerials

\* C13: when an alias of a readT batch does not resolve, the command ends
\* with AliasNotFound if the first such alias is missing from the
\* temperature directory and with SensorNotOnBus if its serial number is in
\* the directory but not among those of the scan; it exits non-zero having
\* made only the reads of the scan: no recordT and no getT for any alias.
C13_TwoStageResolution ==
    ReadTScanned
    => /\ (\E i \in 1..Len(TempBatch) : ~OnBus(TempBatch[i]))
          => LET f == CHOOSE i \in 1..Len(TempBatch) :
                        /\ ~OnBus(TempBatch[i])
                        /\ \A k \in 1..(i - 1) : OnBus(TempBatch[k])
             IN  /\ last.exc = IF InDirectory(TempBatch[f])
                               THEN "SensorNotOnBus" ELSE "AliasNotFound"
                 /\ last.exit # 0
                 /\ last.closed
                 /\ last.slept = -1
                 /\ Len(last.ops) = ScanLen
                 /\ \A j \in 1..Len(last.ops) :
                       /\ last.ops[j].call = "read_register"
                       /\ j > 1 => last.ops[j].functioncode = 3
       /\ last.exc \in {"AliasNotFound", "SensorNotOnBus"}
          => \E i \in 1..Len(TempBatch) : ~OnBus(TempBatch[i])

C13_Witness ==
    /\ ReadTScanned
    /\ last.argv.alias = <<"a", "b">>
    /\ OnBus("a") /\ InDirectory("b") /\ ~OnBus("b")
    /\ last.exc = "SensorNotOnBus"
    /\ Len(last.ops) = 5

\* the board count of the session an invocation opened
SessionBoards == IF last.cmd = "init" THEN last.argv.numBoards ELSE store.numBoards

\* a call on the registers of a sensor: the serial number reads of
\* getTSerial, recordT, getT
IsSensorOp(op) == op.address >= sensorAddress(SessionBoards, 0)

\* the sensor index a call on the sensor registers was made for
SensorIndex(op) == (op.address - sensorAddress(SessionBoards, 0)) \div 4

\* C14: every getTSerial, recordT and getT call of an invocation comes after
\* an answered initT call of the same invocation, and is for an index i with
\* 0 <= i < the count that initT returned.
C14_ScanBeforeIndexedOps ==
    (last # Idle /\ last.opened)
    => \A j \in 1..Len(last.ops) :
          IsSensorOp(last.ops[j])
          => /\ \E k \in 1..(j - 1) :
                   last.ops[k] = read_register(countAddress(SessionBoards), 4)
             /\ SensorIndex(last.ops[j]) >= 0
             /\ SensorIndex(last.ops[j]) < last.argv.bus.numTemps

C14_Witness ==
    /\ last.cmd = "readT" /\ last.exc = "none"
    /\ last.argv.alias = <<"b">>
    /\ last.argv.bus.numTemps = 2
    /\ last.ops[1] = read_register(32, 4)
    /\ last.ops[10] = read_bit(37, 1)
    /\ last.ops[11] = read_register(37, 4)

\* readT has resolved every alias of its batch
ReadTResolved ==
    /\ ReadTScanned
    /\ \A i \in 1..Len(TempBatch) : OnBus(TempBatch[i])

\* the index readT uses for an alias: that of the last sensor of the scan
\* with the alias's serial number
IndexOf(alias) ==
    CHOOSE i \in 0..(last.argv.bus.numTemps - 1) :
       /\ from_bytes(serialBytes(last.argv.bus.sensors[i + 1]))
             = DictGet(store.tempDict, alias)
       /\ \A k \in (i + 1)..(last.argv.bus.numTemps - 1) :
             from_bytes(serialBytes(last.argv.bus.sensors[k + 1]))
                # DictGet(store.tempDict, alias)

\* C15: a readT that resolves all its aliases calls recordT for every alias
\* in token order, then sleeps once, then calls getT for every alias in the
\* same order.  The sleep comes after the last recordT and before the first
\* getT, so no getT comes before the sleep or before the recordT of its
\* index; a run that the transport cuts short has made a prefix of these
\* calls, and has slept exactly when every recordT was answered.
C15_RecordSleepGet ==
    ReadTResolved
    => LET n == Len(TempBatch)
       IN  /\ \A j \in (ScanLen + 1)..Len(last.ops) :
                 LET a == sensorAddress(store.numBoards,
                                        IndexOf(TempBatch[((j - ScanLen - 1) % n) + 1]))
                 IN  last.ops[j] = IF j <= ScanLen + n
                                   THEN read_bit(a, 1) ELSE read_register(a, 4)
           /\ Len(last.ops) <= ScanLen + 2 * n
           /\ Len(last.ops) > ScanLen + n => last.slept = ScanLen + n
           /\ last.slept # -1 => last.slept = ScanLen + n
           /\ last.exc = "none"
                 => (Len(last.ops) = ScanLen + 2 * n /\ last.slept = ScanLen + n)

C15_Witness ==
    /\ ReadTResolved /\ last.exc = "none"
    /\ last.argv.alias = <<"b", "a">>
    /\ last.slept = 11
    /\ last.ops[10] = read_bit(37, 1)
    /\ last.ops[11] = read_bit(33, 1)
    /\ last.ops[12] = read_register(37, 4)
    /\ last.ops[13] = read_register(33, 4)

\* C16: getTSerial(i) with i at or above the count that initT returned
\* raises the index error and reads no register; with i below the count it
\* reads the four holding registers of sensor i and returns their eight
\* bytes, the first register first and the high byte of a register first.
C16_SerialIndexChecked ==
    calc.fn = "getTSerial"
    => /\ calc.i >= calc.count
          => (calc.run.exc = "IndexOutOfRange" /\ calc.run.ops = <<>>)
       /\ calc.i < calc.count
          => /\ calc.run.exc = "none"
             /\ calc.run.ops
                  = [k \in 1..4 |->
                       read_register(sensorAddress(calc.numBoards, calc.i) + k - 1, 3)]
             /\ calc.serialNum
                  = [k \in 1..8 |-> IF k % 2 = 1 THEN calc.regs[(k + 1) \div 2] \div 256
                                    ELSE calc.regs[k \div 2] % 256]
             /\ calc.regs = <<10495, 25626, 1280, 0>>
                  => calc.serialNum = <<40, 255, 100, 26, 5, 0, 0, 0>>

\* C17: getT(i) with i < 0 raises the index error before any register read;
\* with i >= 0 it reads the input register at 1 + boardCount*8 + 4*i and
\* returns what the register held minus 32768, within -32768..32767.
C17_GetTIndexAndDebias ==
    calc.fn = "getT"
    => /\ calc.i < 0
          => (calc.run.exc = "ValueError" /\ calc.run.ops = <<>>
              /\ calc.val = Raise("ValueError"))
       /\ calc.i >= 0
          => /\ calc.run.ops = <<read_register(1 + calc.numBoards * 8 + 4 * calc.i, 4)>>
             /\ calc.val = Return(calc.temp_uint16 - 32768)
             /\ calc.val.val \in (-32768)..32767

C17_Witness ==
    /\ calc.fn = "getT" /\ calc.numBoards = 4 /\ calc.i = 2
    /\ calc.temp_uint16 = 0
    /\ calc.run.ops = <<read_register(41, 4)>>
    /\ calc.val = Return(-32768)

\* the initT call of the invocation was made and answered
InitTAnswered ==
    \E k \in 1..Len(last.ops) :
       /\ last.ops[k] = read_register(countAddress(SessionBoards), 4)
       /\ k < Len(last.ops) \/ last.exc # "TransportError"

\* C18: init, readT, numTempSensors and tempSensorSerNums end with a
\* non-zero exit status, without a getTSerial, recordT or getT call, when
\* initT returned a negative count.
C18_NegativeCountFails ==
    (/\ last.cmd \in {"init", "readT", "numTempSensors", "tempSensorSerNums"}
     /\ last.opened
     /\ InitTAnswered
     /\ last.argv.bus.numTemps < 0)
    => /\ last.exit # 0
       /\ \A j \in 1..Len(last.ops) : ~IsSensorOp(last.ops[j])

\* the function codes of the register calls, which C19 gives as they are:
\* 6 for the register write, 3 for the reads of holding registers (getV,
\* getTSerial), 4 for the reads of input registers (readV, initT, getT)
RegisterCodes ==
    /\ calc.fn = "channel"
       => /\ calc.updateV = <<write_register(calc.address, calc.newRawV, 6)>>
          /\ calc.getV = <<read_register(calc.address, 3)>>
          /\ calc.readV = <<read_register(calc.address, 4)>>
    /\ calc.fn = "sensor"
       => /\ Len(calc.initT) = 1 /\ calc.initT[1].functioncode = 4
          /\ Len(calc.getTSerial) = 4
          /\ \A k \in 1..4 : calc.getTSerial[k].functioncode = 3
          /\ Len(calc.getT) = 1 /\ calc.getT[1].functioncode = 4

\* C19 as stated: 3 for every holding register read, 4 for every input
\* register read, 6 for every register write, and 5 for every access to a
\* power coil, the read of getPower as well as the writes.
C19_CoilReadsUseFive ==
    /\ RegisterCodes
    /\ calc.fn = "channel"
       => /\ calc.powerUp = <<write_bit(calc.address, 1, 5)>>
          /\ calc.powerDown = <<write_bit(calc.address, 0, 5)>>
          /\ calc.getPower = <<read_bit(calc.address, 5)>>

\* C19 amended: 3 for every holding register read, 4 for every input
\* register read, 6 for every register write, 5 for every write of a power
\* coil, and 1 for every coil read: getPower, and recordT.
C19_CoilReadsUseOne ==
    /\ RegisterCodes
    /\ calc.fn = "channel"
       => /\ calc.powerUp = <<write_bit(calc.address, 1, 5)>>
          /\ calc.powerDown = <<write_bit(calc.address, 0, 5)>>
          /\ calc.getPower = <<read_bit(calc.address, 1)>>
    /\ calc.fn = "sensor"
       => calc.recordT = <<read_bit(sensorAddress(calc.numBoards, calc.i), 1)>>

C19_Witness ==
    /\ calc.fn = "channel" /\ calc.address = 20
    /\ calc.powerUp = <<write_bit(20, 1, 5)>>
    /\ calc.getPower = <<read_bit(20, 1)>>

\* a line of the file has an alias and nothing after it
AliasOnly(file) == \E i \in 1..Len(file) : Len(partition(file[i])) = 1

\* C20: an init whose DAC directory or temperature directory has a line
\* made of an alias alone ends with the error of a malformed entry before
\* the port is opened, and leaves the persisted settings as they were.
C20_AliasOnlyLineRejected ==
    [][(/\ last'.cmd = "init"
        /\ AliasOnly(last'.argv.addressFile) \/ AliasOnly(last'.argv.tempFile))
       => (/\ last'.exc = "ValueError"
           /\ last'.ops = <<>>
           /\ store' = store)]_vars

\* C21: an updateV makes no coil write and leaves every power bit as it
\* was; a powUp or powDown makes no register write and leaves every holding
\* register as it was; a power bit that goes on does so in a powUp that
\* wrote 1 to its coil, so a channel never powered up stays off through any
\* number of updateV.
C21_VoltageAndPowerApart ==
    [][/\ (last = Idle /\ last'.cmd = "updateV")
          => /\ \A j \in 1..Len(last'.ops) : last'.ops[j].call # "write_bit"
             /\ bridge'.on = bridge.on
       /\ (last = Idle /\ last'.cmd \in {"powerUp", "powerDown"})
          => /\ \A j \in 1..Len(last'.ops) : last'.ops[j].call # "write_register"
             /\ bridge'.holding = bridge.holding
       /\ \A a \in bridge'.on \ bridge.on :
             /\ last'.cmd = "powerUp"
             /\ \E j \in 1..Len(last'.ops) : last'.ops[j] = write_bit(a, 1, 5)]_vars

C21_Witness ==
    /\ last.cmd = "updateV" /\ last.exc = "none"
    /\ last.argv.chan = <<"a">>
    /\ last.ops[1] = write_register(20, 853, 6)
    /\ bridge.holding = (20 :> 853)
    /\ bridge.on = {11}

\* C22: a command other than init leaves the persisted settings as they
\* are, the wildcard expansion and a failed lookup included, and runs on
\* exactly those settings; the settings change only in an init, and then to
\* what that init built from its own arguments and files, nothing of the
\* old settings kept.
C22_OnlyInitChangesStore ==
    [][/\ last'.cmd \notin {"init", "none"} => store' = store
       /\ (last = Idle /\ last'.cmd \in ChanCmds)
          => \E fail \in 0..Len(last'.ops) :
                last' = chanCommand(last'.cmd, store, last'.argv, fail)
       /\ store' # store
          => /\ last'.cmd = "init"
             /\ LET ad == parseAddressFile(last'.argv.addressFile, 1, <<>>)
                    td == parseTempFile(last'.argv.tempFile, 1, <<>>, <<>>)
                IN  /\ ad.exc = "none" /\ td.exc = "none"
                    /\ store' = [saved |-> TRUE, numBoards |-> last'.argv.numBoards,
                                 addressDict |-> ad.val,
                                 tempDict |-> td.val.tempDict,
                                 iv_tempDict |-> td.val.iv_tempDict]]_vars

C22_Witness ==
    /\ last.cmd = "powerUp" /\ last.exc = "AliasNotFound"
    /\ last.argv.chan = <<"a", "z">>
    /\ Len(last.ops) = 2
    /\ store.saved /\ store.numBoards = 1
    /\ store.addressDict = << <<"b", <<3, 0, 1>> >>, <<"a", <<0, 1, 2>> >> >>

\* C23: for every signed 16-bit raw temperature r, convertToDegC(r) is -127
\* when r <= -7040 and r/128 otherwise; -7040 and -7041 give -127, 0 gives
\* 0 and 128 gives 1.
C23_DegCOrSentinel ==
    calc.fn = "convertToDegC"
    => /\ calc.rawTemp <= -7040 => calc.degC = -127 * DegScale
       /\ calc.rawTemp > -7040 => calc.degC * 128 = calc.rawTemp * DegScale
       /\ calc.rawTemp \in {-7040, -7041} => calc.degC = -127 * DegScale
       /\ calc.rawTemp = 0 => calc.degC = 0
       /\ calc.rawTemp = 128 => calc.degC = 1 * DegScale

C23_Witness ==
    /\ calc.fn = "convertToDegC"
    /\ calc.rawTemp = -7040
    /\ calc.degC = -127 * DegScale

\* C24: a tempSensorSerNums that the transport does not cut short reads
\* the serial number of every sensor index of the scan, 0 to count-1 in
\* order, whether or not a serial number has an alias.
C24_EverySensorReported ==
    (/\ last.cmd = "tempSensorSerNums" /\ last.opened
     /\ last.argv.bus.numTemps >= 0
     /\ last.exc # "TransportError")
    => /\ Len(last.ops) = ScanLen
       /\ \A i \in 0..(last.argv.bus.numTemps - 1) :
             \A k \in 1..4 :
                last.ops[1 + 4 * i + k]
                   = read_register(sensorAddress(store.numBoards, i) + k - 1, 3)

\* C25: the two temperature maps that init persisted are inverses of each
\* other: every serial number of the inverse map is what its alias maps
\* to, and every alias is what its serial number maps back to.
C25_TempMapsInverse ==
    store.saved
    => /\ \A i \in 1..Len(store.iv_tempDict) :
             /\ DictHas(store.tempDict, store.iv_tempDict[i][2])
             /\ DictGet(store.tempDict, store.iv_tempDict[i][2]) = store.iv_tempDict[i][1]
       /\ \A i \in 1..Len(store.tempDict) :
             /\ DictHas(store.iv_tempDict, store.tempDict[i][2])
             /\ DictGet(store.iv_tempDict, store.tempDict[i][2]) = store.tempDict[i][1]

====
